---- MODULE Spec2Model ----
(***************************************************************************)
(* A model of Sigil's EPUB exporter (src/Sigil/Exporters/ExportEPUB.cpp):  *)
(* ExportEPUB::WriteBook, CreatePublication, CreateEncryptionXML,          *)
(* ObfuscateFonts and SaveFolderAsEpubToLocation.                          *)
(*                                                                         *)
(* Strings (QString, C strings) are sequences of one-character strings.    *)
(* The minizip archive is the sequence of entries it holds plus the        *)
(* handle's state; every call the exporter makes on the archive, on QFile  *)
(* and on FontObfuscation is appended to `trace` in program order, so that *)
(* the order of calls is part of the state.                                *)
(***************************************************************************)
EXTENDS Integers, Sequences, FiniteSets, TLC

(***************************************************************************)
(* Bounds of the model.                                                    *)
(***************************************************************************)
\* the book holds at most this many files (fonts included)
MaxFiles == 2
\* the book holds at most this many font resources
MaxFonts == 2
\* a source file holds at most this many full buffers
MaxBlocks == 1

(***************************************************************************)
(* Program constants.                                                      *)
(***************************************************************************)
BUFF_SIZE == 8192
Z_NO_COMPRESSION == 0
Z_DEFLATED == 8
\* flagBase 0x800 of line 153: the entry's name is UTF-8
UTF8_FLAG == 2048

EPUB_MIME_TYPE ==
    << "a","p","p","l","i","c","a","t","i","o","n","/","e","p","u","b","+","z","i","p" >>

MIMETYPE_NAME == << "m","i","m","e","t","y","p","e" >>

METAINF_FOLDER_SUFFIX == << "/","M","E","T","A","-","I","N","F" >>

ENCRYPTION_XML_FILE_NAME ==
    << "e","n","c","r","y","p","t","i","o","n",".","x","m","l" >>

ADOBE_FONT_ALGO_ID == "http://ns.adobe.com/pdf/enc#RC"
IDPF_FONT_ALGO_ID  == "http://www.idpf.org/2008/embedding"

\* the destination path given to the constructor (m_FullFilePath)
m_FullFilePath == << "/","o",".","e","p","u","b" >>

(***************************************************************************)
(* QString operations.                                                     *)
(***************************************************************************)
\* QString::startsWith
StartsWith(s, t) ==
    /\ Len(t) <= Len(s)
    /\ SubSeq(s, 1, Len(t)) = t

\* QString::remove(int position, int n)
RemoveAt(s, pos, n) ==
    SubSeq(s, 1, pos) \o SubSeq(s, pos + n + 1, Len(s))

\* QString::remove(const QString &str): removes EVERY occurrence of str,
\* scanning from the left and resuming the search where the match was cut.
RECURSIVE RemoveAll(_, _)
RemoveAll(s, t) ==
    IF Len(t) = 0 \/ Len(s) < Len(t) THEN s
    ELSE IF StartsWith(s, t) THEN RemoveAll(RemoveAt(s, 0, Len(t)), t)
    ELSE << Head(s) >> \o RemoveAll(Tail(s), t)

\* while (relpath.startsWith("/")) relpath = relpath.remove(0, 1);
RECURSIVE StripLeadingSlashes(_)
StripLeadingSlashes(s) ==
    IF StartsWith(s, << "/" >>) THEN StripLeadingSlashes(RemoveAt(s, 0, 1))
    ELSE s

\* relpath as lines 146-149 compute it from it.filePath()
RelPathOf(filePath, folder) ==
    StripLeadingSlashes(RemoveAll(filePath, folder))

RECURSIVE LastSlash(_, _)
LastSlash(s, i) ==
    IF i = 0 THEN 0
    ELSE IF s[i] = "/" THEN i
    ELSE LastSlash(s, i - 1)

\* QDirIterator::fileName(): the name of the file, without its directory
FileName(filePath) ==
    SubSeq(filePath, LastSlash(filePath, Len(filePath)) + 1, Len(filePath))

\* folder + "/" + relative path
JoinPath(folder, rel) == folder \o << "/" >> \o rel

\* the path of a file under folder, relative to folder
RootRelative(filePath, folder) == SubSeq(filePath, Len(folder) + 2, Len(filePath))

(***************************************************************************)
(* unsigned int: 32 bits, held as two 16-bit halves.                       *)
(***************************************************************************)
HalfWord == 65536

\* the conversion of a qint64 (here -1 .. BUFF_SIZE) to unsigned int
ToUInt32(x) == [hi |-> (x \div HalfWord) % HalfWord, lo |-> x % HalfWord]

\* `u > 0` on an unsigned int
UGtZero(u) == u.hi > 0 \/ (u.hi = 0 /\ u.lo > 0)

\* `u < 0` on an unsigned int
ULtZero(u) == u.hi < 0 \/ (u.hi = 0 /\ u.lo < 0)

\* `u > BUFF_SIZE`: more than the buffer holds
UExceedsBuff(u) == u.hi > 0 \/ u.lo > BUFF_SIZE

(***************************************************************************)
(* Inputs: the book and the file system.                                   *)
(***************************************************************************)
\* the path TempFolder hands out
TempPaths == { << "/","t" >> }

\* root-relative paths of the files a book may hold besides its fonts
RelPaths ==
    { << "a" >>,
      << "d","/","a" >>,
      << "d","/","t","/","a" >>,
      MIMETYPE_NAME }

\* root-relative path of the i-th font resource
FontNames == << "f", "g", "h", "k" >>
FontRel(i) == << FontNames[i] >>

\* obfuscation algorithm tags of a font resource; "" is "not obfuscated"
AlgorithmTags == { "", ADOBE_FONT_ALGO_ID, IDPF_FONT_ALGO_ID }

\* the value of the book's UUID identifier; "" when it has none
UUIDValue == "urn:uuid:1"
PublicationIdentifier == "urn:isbn:1"

\* the size in bytes of the file at a root-relative path: empty, just below
\* one buffer, a whole number of buffers, and one byte more than that
FileSizeOf(rel) ==
    CASE rel = << "a" >> -> 0
      [] rel = << "d","/","a" >> -> BUFF_SIZE - 1
      [] rel = << "d","/","t","/","a" >> -> MaxBlocks * BUFF_SIZE
      [] rel = MIMETYPE_NAME -> MaxBlocks * BUFF_SIZE + 1
      [] OTHER -> BUFF_SIZE - 1

SeqsUpTo(S, n) == UNION { [1..k -> S] : k \in 0..n }

VARIABLES
    pc,             \* position in WriteBook and its callees
    fonts,          \* the book's font resources: sequence of algorithm tags
    bookFiles,      \* root-relative paths of the book's other files
    opfUUID,        \* the OPF's UUID identifier value, "" if absent
    tempExists,     \* the TempFolder's directory is on disk
    tempMade,       \* number of temporary directories created
    fullfolderpath, \* tempfolder.GetPath()
    staged,         \* full paths of the regular files in the temp folder
    uuid_id,        \* ObfuscateFonts' local
    main_id,        \* ObfuscateFonts' local
    fontIdx,        \* ObfuscateFonts' position in font_resources
    dest,           \* what is at m_FullFilePath: "absent", "prior", "archive"
    zf,             \* the archive: [handle, inEntry, entries]
    remaining,      \* files the QDirIterator has not returned yet
    itFile,         \* it.filePath()
    relpath,        \* the loop's relpath
    fsize,          \* size of the file dfile reads
    fpos,           \* dfile's read position
    read,           \* unsigned int read
    obfCalls,       \* the calls of FontObfuscation::ObfuscateFile, in order
    trace,          \* calls and throws, in program order
    err             \* the exception that left WriteBook, or NoError

vars == << pc, fonts, bookFiles, opfUUID, tempExists, tempMade, fullfolderpath,
           staged, uuid_id, main_id, fontIdx, dest, zf, remaining, itFile,
           relpath, fsize, fpos, read, obfCalls, trace, err >>

bookVars  == << fonts, bookFiles >>
tempVars  == << tempExists, tempMade, fullfolderpath, staged >>
obfVars   == << uuid_id, main_id, fontIdx, obfCalls >>
iterVars  == << remaining, itFile, relpath >>
dfileVars == << fsize, fpos, read >>

NoError == [kind |-> "none", path |-> << >>]

Ev(op, name) == [op |-> op, name |-> name]

\* Book::HasObfuscatedFonts
HasObfuscatedFonts == \E i \in 1..Len(fonts) : fonts[i] # ""

\* OPFResource::EnsureUUIDIdentifierPresent
EnsureUUIDIdentifierPresent(v) == IF v = "" THEN UUIDValue ELSE v

\* what the OPF holds after the call of EnsureUUIDIdentifierPresent: the
\* identifier, or still none when the book model could not add one
EnsureOutcomes(v) == { EnsureUUIDIdentifierPresent(v), v }

\* Utility::CopyFiles( main folder, fullfolderpath )
CopyFiles(folder) ==
    { JoinPath(folder, r) : r \in bookFiles }
        \cup { JoinPath(folder, FontRel(i)) : i \in 1..Len(fonts) }

Init ==
    /\ pc = "WriteBook"
    /\ fonts \in SeqsUpTo(AlgorithmTags, MaxFonts)
    /\ bookFiles \in { S \in SUBSET RelPaths : Cardinality(S) + Len(fonts) <= MaxFiles }
    /\ opfUUID \in { "", UUIDValue }
    /\ tempExists = FALSE
    /\ tempMade = 0
    /\ fullfolderpath = << >>
    /\ staged = { }
    /\ uuid_id = ""
    /\ main_id = ""
    /\ fontIdx = 0
    /\ dest \in { "absent", "prior" }
    /\ zf = [handle |-> "unset", inEntry |-> FALSE, entries |-> << >>,
             misused |-> FALSE]
    /\ remaining = { }
    /\ itFile = << >>
    /\ relpath = << >>
    /\ fsize = 0
    /\ fpos = 0
    /\ read = ToUInt32(0)
    /\ obfCalls = << >>
    /\ trace = << >>
    /\ err = NoError

(***************************************************************************)
(* minizip, on the pair s = [zf, trace].  zf.misused records a call made   *)
(* in the wrong state of the handle: a write or an entry's close with no   *)
(* entry open, an open or zipClose with an entry still open.               *)
(***************************************************************************)
Call(s, op, name) == [s EXCEPT !.trace = Append(@, Ev(op, name))]

\* zipOpenNewFileInZip64 / zipOpenNewFileInZip4_64 returning Z_OK
zipOpenNewFileInZip(s, name, src, extra, method, level, flagBase, zip64) ==
    LET e == [name |-> name, src |-> src, method |-> method, level |-> level,
              flagBase |-> flagBase, zip64 |-> zip64, extra |-> extra,
              chunks |-> << >>, closed |-> FALSE, closeOk |-> FALSE]
    IN  [Call(s, "zipOpenNewFileInZip", name) EXCEPT
            !.zf.entries = Append(@, e), !.zf.inEntry = TRUE,
            !.zf.misused = @ \/ s.zf.inEntry]

\* zipOpenNewFileInZip64 / zipOpenNewFileInZip4_64 failing: no entry is open
zipOpenNewFileInZipFails(s, name) == Call(s, "zipOpenNewFileInZip", name)

\* zipWriteInFileInZip: the chunk reaches the open entry when it returns Z_OK
zipWriteInFileInZip(s, chunk, ok) ==
    LET n == Len(s.zf.entries)
    IN  IF ok /\ s.zf.inEntry
        THEN [Call(s, "zipWriteInFileInZip", << >>) EXCEPT
                !.zf.entries[n].chunks = Append(@, chunk)]
        ELSE [Call(s, "zipWriteInFileInZip", << >>) EXCEPT
                !.zf.misused = @ \/ ~s.zf.inEntry]

\* zipCloseFileInZip: the entry is no longer open, whatever is returned
zipCloseFileInZip(s, ok) ==
    LET n == Len(s.zf.entries)
    IN  IF s.zf.inEntry
        THEN [Call(s, "zipCloseFileInZip", << >>) EXCEPT
                !.zf.entries[n].closed = TRUE,
                !.zf.entries[n].closeOk = ok,
                !.zf.inEntry = FALSE]
        ELSE [Call(s, "zipCloseFileInZip", << >>) EXCEPT !.zf.misused = TRUE]

\* zipClose: closes the open entry, if any, writes the central directory
\* and releases the handle
zipClose(s) ==
    LET n == Len(s.zf.entries)
        t == Call(s, "zipClose", << >>)
    IN  IF s.zf.inEntry
        THEN [t EXCEPT !.zf.entries[n].closed = TRUE,
                       !.zf.inEntry = FALSE,
                       !.zf.handle = "closed",
                       !.zf.misused = TRUE]
        ELSE [t EXCEPT !.zf.handle = "closed"]

\* boost_throw( kind << errinfo_file_fullpath( path ) )
Throw(s, path) == Call(s, "throw", path)

Now == [zf |-> zf, trace |-> trace]

Error(kind, path) == [kind |-> kind, path |-> path]

(***************************************************************************)
(* ExportEPUB::WriteBook                                                   *)
(***************************************************************************)
\* lines 86-91: EnsureUUIDIdentifierPresent, AddSigilVersionMeta and
\* SaveAllResourcesToDisk; an error here leaves WriteBook before the
\* TempFolder is constructed.
WB_Prepare ==
    /\ pc = "WriteBook"
    /\ \E u \in EnsureOutcomes(opfUUID) :
         opfUUID' = IF HasObfuscatedFonts THEN u ELSE opfUUID
    /\ \E saved \in BOOLEAN :
         IF saved
         THEN /\ pc' = "TempFolder"
              /\ UNCHANGED << trace, err >>
         ELSE /\ pc' = "done"
              /\ trace' = Append(trace, Ev("throw", << >>))
              /\ err' = Error("CannotWriteFile", << >>)
    /\ UNCHANGED << bookVars, tempVars, obfVars, dest, zf, iterVars, dfileVars >>

\* line 93: TempFolder tempfolder;
WB_TempFolder ==
    /\ pc = "TempFolder"
    /\ \E p \in TempPaths : fullfolderpath' = p
    /\ tempExists' = TRUE
    /\ tempMade' = tempMade + 1
    /\ staged' = { }
    /\ pc' = "CreatePublication"
    /\ UNCHANGED << bookVars, opfUUID, obfVars, dest, zf, iterVars, dfileVars,
                    trace, err >>

\* lines 94 and 106-113, with CreateEncryptionXML (lines 195-214) when the
\* book has obfuscated fonts.  QFile::copy's result is not looked at.
CreatePublication ==
    /\ pc = "CreatePublication"
    /\ \E copied, tmpOpened, xmlCopied \in BOOLEAN :
         LET tree == CopyFiles(fullfolderpath)
             xml  == JoinPath(fullfolderpath \o METAINF_FOLDER_SUFFIX,
                              ENCRYPTION_XML_FILE_NAME)
         IN  IF ~copied
             THEN /\ staged' = staged
                  /\ pc' = "unwind"
                  /\ trace' = Append(trace, Ev("throw", << >>))
                  /\ err' = Error("CannotCopyFile", << >>)
             ELSE IF ~HasObfuscatedFonts
             THEN /\ staged' = tree
                  /\ pc' = "SaveFolderAsEpubToLocation"
                  /\ UNCHANGED << trace, err >>
             ELSE IF ~tmpOpened
             THEN /\ staged' = tree
                  /\ pc' = "unwind"
                  /\ trace' = Append(trace, Ev("throw", << >>))
                  /\ err' = Error("CannotOpenFile", << >>)
             ELSE /\ staged' = IF xmlCopied THEN tree \cup { xml } ELSE tree
                  /\ pc' = "ObfuscateFonts"
                  /\ UNCHANGED << trace, err >>
    /\ UNCHANGED << bookVars, opfUUID, tempExists, tempMade, fullfolderpath,
                    obfVars, dest, zf, iterVars, dfileVars >>

\* line 101, normal return: tempfolder goes out of scope
WB_Return ==
    /\ pc = "return"
    /\ tempExists' = FALSE
    /\ pc' = "done"
    /\ UNCHANGED << bookVars, opfUUID, tempMade, fullfolderpath, staged, obfVars,
                    dest, zf, iterVars, dfileVars, trace, err >>

\* WB_Unwind with the directory removed only by a call at the end of
\* WriteBook, which an exception skips
WB_Unwind_Leak ==
    /\ pc = "unwind"
    /\ tempExists' = tempExists
    /\ pc' = "done"
    /\ UNCHANGED << bookVars, opfUUID, tempMade, fullfolderpath, staged, obfVars,
                    dest, zf, iterVars, dfileVars, trace, err >>

\* lines 93-101, an exception leaves the scope of tempfolder: the stack is
\* unwound and tempfolder destroyed
WB_Unwind ==
    /\ pc = "unwind"
    /\ tempExists' = FALSE
    /\ pc' = "done"
    /\ UNCHANGED << bookVars, opfUUID, tempMade, fullfolderpath, staged, obfVars,
                    dest, zf, iterVars, dfileVars, trace, err >>

(***************************************************************************)
(* ExportEPUB::ObfuscateFonts                                              *)
(***************************************************************************)
\* lines 219-222
OF_Begin ==
    /\ pc = "ObfuscateFonts"
    /\ uuid_id' = opfUUID
    /\ main_id' = PublicationIdentifier
    /\ fontIdx' = 1
    /\ pc' = "OF_foreach"
    /\ UNCHANGED << bookVars, opfUUID, tempVars, obfCalls, dest, zf, iterVars,
                    dfileVars, trace, err >>

\* KeyFor with the two identifiers exchanged
KeyFor_Swapped(algorithm) ==
    IF algorithm = ADOBE_FONT_ALGO_ID THEN main_id ELSE uuid_id

\* the key lines 234-240 pass for a font's algorithm
KeyFor(algorithm) ==
    IF algorithm = ADOBE_FONT_ALGO_ID THEN uuid_id ELSE main_id

\* OF_Font going on to the next font when ObfuscateFile raised an error
OF_Font_Continue ==
    /\ pc = "OF_foreach"
    /\ fontIdx <= Len(fonts)
    /\ LET algorithm == fonts[fontIdx]
           font_path == JoinPath(fullfolderpath, FontRel(fontIdx))
       IN  IF algorithm = ""
           THEN /\ fontIdx' = fontIdx + 1
                /\ pc' = pc
                /\ UNCHANGED << obfCalls, trace, err >>
           ELSE /\ obfCalls' = Append(obfCalls,
                        [font |-> fontIdx, path |-> font_path,
                         algorithm |-> algorithm, key |-> KeyFor(algorithm)])
                /\ \E done \in BOOLEAN :
                     IF done
                     THEN /\ fontIdx' = fontIdx + 1
                          /\ pc' = pc
                          /\ trace' = Append(trace, Ev("ObfuscateFile", font_path))
                          /\ err' = err
                     ELSE /\ fontIdx' = fontIdx + 1
                          /\ pc' = pc
                          /\ trace' = trace \o << Ev("ObfuscateFile", font_path),
                                                  Ev("throw", font_path) >>
                          /\ err' = err
    /\ UNCHANGED << bookVars, opfUUID, tempVars, uuid_id, main_id, dest, zf,
                    iterVars, dfileVars >>

\* lines 224-241, one font resource; FontObfuscation::ObfuscateFile may
\* raise CannotOpenFile
OF_Font ==
    /\ pc = "OF_foreach"
    /\ fontIdx <= Len(fonts)
    /\ LET algorithm == fonts[fontIdx]
           font_path == JoinPath(fullfolderpath, FontRel(fontIdx))
       IN  IF algorithm = ""
           THEN /\ fontIdx' = fontIdx + 1
                /\ pc' = pc
                /\ UNCHANGED << obfCalls, trace, err >>
           ELSE /\ obfCalls' = Append(obfCalls,
                        [font |-> fontIdx, path |-> font_path,
                         algorithm |-> algorithm, key |-> KeyFor(algorithm)])
                /\ \E done \in BOOLEAN :
                     IF done
                     THEN /\ fontIdx' = fontIdx + 1
                          /\ pc' = pc
                          /\ trace' = Append(trace, Ev("ObfuscateFile", font_path))
                          /\ err' = err
                     ELSE /\ fontIdx' = fontIdx
                          /\ pc' = "unwind"
                          /\ trace' = trace \o << Ev("ObfuscateFile", font_path),
                                                  Ev("throw", font_path) >>
                          /\ err' = Error("CannotOpenFile", font_path)
    /\ UNCHANGED << bookVars, opfUUID, tempVars, uuid_id, main_id, dest, zf,
                    iterVars, dfileVars >>

\* line 242: the foreach is over
OF_Return ==
    /\ pc = "OF_foreach"
    /\ fontIdx > Len(fonts)
    /\ pc' = "SaveFolderAsEpubToLocation"
    /\ UNCHANGED << bookVars, opfUUID, tempVars, obfVars, dest, zf, iterVars,
                    dfileVars, trace, err >>

(***************************************************************************)
(* ExportEPUB::SaveFolderAsEpubToLocation                                  *)
(***************************************************************************)
\* zipOpen64( fullfilepath, APPEND_STATUS_CREATE ): creates or truncates the
\* file and returns a handle, or returns NULL and leaves the path alone
zipOpen64(s, opened) ==
    [Call(s, "zipOpen", m_FullFilePath) EXCEPT
        !.zf.handle = IF opened THEN "open" ELSE "NULL"]

\* what reading through mime_data can yield: the pointer is taken from the
\* temporary QByteArray of line 134, which is destroyed at the end of that
\* statement, so the bytes are the MIME type or whatever replaced them
DanglingMimeData == { EPUB_MIME_TYPE, << "?" >> }

\* strlen of a C string without embedded NUL
strlen(data) == Len(data)

Min(a, b) == IF a <= b THEN a ELSE b

\* lines 117-123
Save_zipOpen ==
    /\ pc = "SaveFolderAsEpubToLocation"
    /\ \E opened \in BOOLEAN :
         LET s == zipOpen64(Now, opened)
         IN  /\ zf' = s.zf
             /\ trace' = s.trace
             /\ dest' = IF opened THEN "archive" ELSE dest
    /\ pc' = "Save_null"
    /\ UNCHANGED << bookVars, opfUUID, tempVars, obfVars, iterVars, dfileVars, err >>

\* Save_CheckNull without the test of zfile
Save_CheckNull_Missing ==
    /\ pc = "Save_null"
    /\ pc' = "Save_mimetype"
    /\ UNCHANGED << bookVars, opfUUID, tempVars, obfVars, dest, zf, iterVars,
                    dfileVars, trace, err >>

\* lines 125-127
Save_CheckNull ==
    /\ pc = "Save_null"
    /\ IF zf.handle = "NULL"
       THEN /\ trace' = Throw(Now, m_FullFilePath).trace
            /\ err' = Error("CannotOpenFile", m_FullFilePath)
            /\ pc' = "unwind"
       ELSE /\ pc' = "Save_mimetype"
            /\ UNCHANGED << trace, err >>
    /\ UNCHANGED << bookVars, opfUUID, tempVars, obfVars, dest, zf, iterVars,
                    dfileVars >>

\* lines 130-133
Save_MimeOpen ==
    /\ pc = "Save_mimetype"
    /\ \E ok \in BOOLEAN :
         IF ok
         THEN LET s == zipOpenNewFileInZip(Now, MIMETYPE_NAME, << >>, 0,
                                           Z_NO_COMPRESSION, 0, 0, 0)
              IN  /\ zf' = s.zf
                  /\ trace' = s.trace
                  /\ err' = err
                  /\ pc' = "Save_mimewrite"
         ELSE LET s == Throw(zipClose(zipOpenNewFileInZipFails(Now, MIMETYPE_NAME)),
                             MIMETYPE_NAME)
              IN  /\ zf' = s.zf
                  /\ trace' = s.trace
                  /\ err' = Error("CannotStoreFile", MIMETYPE_NAME)
                  /\ pc' = "unwind"
    /\ UNCHANGED << bookVars, opfUUID, tempVars, obfVars, dest, iterVars, dfileVars >>

\* lines 134-139
Save_MimeWrite ==
    /\ pc = "Save_mimewrite"
    /\ \E mime_data \in DanglingMimeData, ok \in BOOLEAN :
         LET chunk == [bytes |-> mime_data, off |-> 0,
                       len |-> ToUInt32(strlen(mime_data)), ok |-> TRUE]
             w == zipWriteInFileInZip(Now, chunk, ok)
         IN  IF ok
             THEN /\ zf' = w.zf
                  /\ trace' = w.trace
                  /\ err' = err
                  /\ pc' = "Save_mimeclose"
             ELSE \E cok \in BOOLEAN :
                  LET s == Throw(zipClose(zipCloseFileInZip(w, cok)), MIMETYPE_NAME)
                  IN  /\ zf' = s.zf
                      /\ trace' = s.trace
                      /\ err' = Error("CannotStoreFile", MIMETYPE_NAME)
                      /\ pc' = "unwind"
    /\ UNCHANGED << bookVars, opfUUID, tempVars, obfVars, dest, iterVars, dfileVars >>

\* Save_MimeClose without the call of zipCloseFileInZip
Save_MimeClose_NoClose ==
    /\ pc = "Save_mimeclose"
    /\ remaining' = staged
    /\ pc' = "Save_while"
    /\ UNCHANGED << bookVars, opfUUID, tempVars, obfVars, dest, zf, itFile, relpath,
                    dfileVars, trace, err >>

\* lines 140-143: the entry is closed, the result is not looked at, and the
\* QDirIterator is set on the regular, readable files under fullfolderpath
Save_MimeClose ==
    /\ pc = "Save_mimeclose"
    /\ \E cok \in BOOLEAN :
         LET s == zipCloseFileInZip(Now, cok)
         IN  /\ zf' = s.zf
             /\ trace' = s.trace
    /\ remaining' = staged
    /\ pc' = "Save_while"
    /\ UNCHANGED << bookVars, opfUUID, tempVars, obfVars, dest, itFile, relpath,
                    dfileVars, err >>

\* Save_Next as the head of a do-while loop: the body is entered before
\* it.hasNext() is asked
Save_Next_DoWhile ==
    /\ pc = "Save_while"
    /\ \E f \in remaining \cup { JoinPath(fullfolderpath, << "a" >>) } :
         /\ itFile' = f
         /\ remaining' = remaining \ { f }
         /\ relpath' = RelPathOf(f, fullfolderpath)
    /\ pc' = "Save_entry"
    /\ UNCHANGED << bookVars, opfUUID, tempVars, obfVars, dest, zf, dfileVars,
                    trace, err >>

\* lines 144-149: it.next() and relpath
Save_Next ==
    /\ pc = "Save_while"
    /\ remaining # { }
    /\ \E f \in remaining :
         /\ itFile' = f
         /\ remaining' = remaining \ { f }
         /\ relpath' = RelPathOf(f, fullfolderpath)
    /\ pc' = "Save_entry"
    /\ UNCHANGED << bookVars, opfUUID, tempVars, obfVars, dest, zf, dfileVars,
                    trace, err >>

\* Save_OpenEntry raising its error without closing the archive
Save_OpenEntry_NoZipClose ==
    /\ pc = "Save_entry"
    /\ \E ok \in BOOLEAN :
         IF ok
         THEN LET s == zipOpenNewFileInZip(Now, relpath, itFile, 0,
                                           Z_DEFLATED, 8, UTF8_FLAG, 0)
              IN  /\ zf' = s.zf
                  /\ trace' = s.trace
                  /\ err' = err
                  /\ pc' = "Save_dfile"
         ELSE LET s == Throw(zipOpenNewFileInZipFails(Now, relpath), relpath)
              IN  /\ zf' = s.zf
                  /\ trace' = s.trace
                  /\ err' = Error("CannotStoreFile", relpath)
                  /\ pc' = "unwind"
    /\ UNCHANGED << bookVars, opfUUID, tempVars, obfVars, dest, iterVars, dfileVars >>

\* Save_OpenEntry closing the entry that failed to open
Save_OpenEntry_CloseAfterFail ==
    /\ pc = "Save_entry"
    /\ \E ok \in BOOLEAN :
         IF ok
         THEN LET s == zipOpenNewFileInZip(Now, relpath, itFile, 0,
                                           Z_DEFLATED, 8, UTF8_FLAG, 0)
              IN  /\ zf' = s.zf
                  /\ trace' = s.trace
                  /\ err' = err
                  /\ pc' = "Save_dfile"
         ELSE LET s == Throw(zipClose(zipCloseFileInZip(
                                 zipOpenNewFileInZipFails(Now, relpath), TRUE)),
                             relpath)
              IN  /\ zf' = s.zf
                  /\ trace' = s.trace
                  /\ err' = Error("CannotStoreFile", relpath)
                  /\ pc' = "unwind"
    /\ UNCHANGED << bookVars, opfUUID, tempVars, obfVars, dest, iterVars, dfileVars >>

\* lines 153-156
Save_OpenEntry ==
    /\ pc = "Save_entry"
    /\ \E ok \in BOOLEAN :
         IF ok
         THEN LET s == zipOpenNewFileInZip(Now, relpath, itFile, 0,
                                           Z_DEFLATED, 8, UTF8_FLAG, 0)
              IN  /\ zf' = s.zf
                  /\ trace' = s.trace
                  /\ err' = err
                  /\ pc' = "Save_dfile"
         ELSE LET s == Throw(zipClose(zipOpenNewFileInZipFails(Now, relpath)), relpath)
              IN  /\ zf' = s.zf
                  /\ trace' = s.trace
                  /\ err' = Error("CannotStoreFile", relpath)
                  /\ pc' = "unwind"
    /\ UNCHANGED << bookVars, opfUUID, tempVars, obfVars, dest, iterVars, dfileVars >>

\* lines 160-168
Save_OpenSource ==
    /\ pc = "Save_dfile"
    /\ \E opened \in BOOLEAN :
         IF opened
         THEN /\ fsize' = FileSizeOf(RootRelative(itFile, fullfolderpath))
              /\ fpos' = 0
              /\ read' = ToUInt32(0)
              /\ trace' = Call(Now, "QFile::open", itFile).trace
              /\ pc' = "Save_read"
              /\ UNCHANGED << zf, err >>
         ELSE \E cok \in BOOLEAN :
              LET s == Throw(zipClose(zipCloseFileInZip(
                                 Call(Now, "QFile::open", itFile), cok)),
                             FileName(itFile))
              IN  /\ zf' = s.zf
                  /\ trace' = s.trace
                  /\ err' = Error("CannotOpenFile", FileName(itFile))
                  /\ pc' = "unwind"
                  /\ UNCHANGED << fsize, fpos, read >>
    /\ UNCHANGED << bookVars, opfUUID, tempVars, obfVars, dest, iterVars >>

\* what dfile.read( buff, BUFF_SIZE ) can return: the bytes left, at most
\* BUFF_SIZE of them, or -1
ReadResults == { Min(BUFF_SIZE, fsize - fpos), -1 }

\* line 169: read = dfile.read( buff, BUFF_SIZE ) and the test read > 0
Save_Read ==
    /\ pc = "Save_read"
    /\ \E r \in ReadResults :
         /\ read' = ToUInt32(r)
         /\ fpos' = IF r > 0 THEN fpos + r ELSE fpos
         /\ pc' = IF UGtZero(ToUInt32(r)) THEN "Save_write" ELSE "Save_closeentry"
    /\ UNCHANGED << bookVars, opfUUID, tempVars, obfVars, dest, zf, iterVars,
                    fsize, trace, err >>

\* what zipWriteInFileInZip( zfile, buff, read ) can do.  With read beyond
\* the buffer's size it reads past buff, to the end of the stack and on:
\* the call fails on the way or the process is killed
WriteResults ==
    IF UExceedsBuff(read) THEN { "Z_ERRNO", "crash" }
    ELSE { "Z_OK", "Z_ERRNO" }

\* Save_Write handing the whole buffer to zipWriteInFileInZip, whatever
\* the number of bytes read
Save_Write_FullBuffer ==
    /\ pc = "Save_write"
    /\ \E res \in WriteResults :
         LET fits  == ~UExceedsBuff(read)
             chunk == [bytes |-> << >>,
                       off |-> IF fits THEN fpos - read.lo ELSE -1,
                       len |-> ToUInt32(BUFF_SIZE), ok |-> fits]
             w == zipWriteInFileInZip(Now, chunk, res = "Z_OK")
         IN  CASE res = "Z_OK" ->
                    /\ zf' = w.zf
                    /\ trace' = w.trace
                    /\ err' = err
                    /\ pc' = "Save_read"
               [] res = "Z_ERRNO" ->
                    \E cok \in BOOLEAN :
                    LET s == Throw(zipClose(zipCloseFileInZip(w, cok)), relpath)
                    IN  /\ zf' = s.zf
                        /\ trace' = s.trace
                        /\ err' = Error("CannotStoreFile", relpath)
                        /\ pc' = "unwind"
               [] res = "crash" ->
                    /\ trace' = w.trace
                    /\ pc' = "crashed"
                    /\ UNCHANGED << zf, err >>
    /\ UNCHANGED << bookVars, opfUUID, tempVars, obfVars, dest, iterVars, dfileVars >>

\* lines 170-175
Save_Write ==
    /\ pc = "Save_write"
    /\ \E res \in WriteResults :
         LET fits  == ~UExceedsBuff(read)
             chunk == [bytes |-> << >>,
                       off |-> IF fits THEN fpos - read.lo ELSE -1,
                       len |-> read, ok |-> fits]
             w == zipWriteInFileInZip(Now, chunk, res = "Z_OK")
         IN  CASE res = "Z_OK" ->
                    /\ zf' = w.zf
                    /\ trace' = w.trace
                    /\ err' = err
                    /\ pc' = "Save_read"
               [] res = "Z_ERRNO" ->
                    \E cok \in BOOLEAN :
                    LET s == Throw(zipClose(zipCloseFileInZip(w, cok)), relpath)
                    IN  /\ zf' = s.zf
                        /\ trace' = s.trace
                        /\ err' = Error("CannotStoreFile", relpath)
                        /\ pc' = "unwind"
               [] res = "crash" ->
                    /\ trace' = w.trace
                    /\ pc' = "crashed"
                    /\ UNCHANGED << zf, err >>
    /\ UNCHANGED << bookVars, opfUUID, tempVars, obfVars, dest, iterVars, dfileVars >>

\* lines 177-188: dfile.close(), the test read < 0, and the entry's close
Save_CloseEntry ==
    /\ pc = "Save_closeentry"
    /\ \E cok \in BOOLEAN :
         LET c == zipCloseFileInZip(Now, cok)
         IN  IF ULtZero(read)
             THEN LET s == Throw(zipClose(c), relpath)
                  IN  /\ zf' = s.zf
                      /\ trace' = s.trace
                      /\ err' = Error("CannotStoreFile", relpath)
                      /\ pc' = "unwind"
             ELSE IF ~cok
             THEN LET s == Throw(zipClose(c), relpath)
                  IN  /\ zf' = s.zf
                      /\ trace' = s.trace
                      /\ err' = Error("CannotStoreFile", relpath)
                      /\ pc' = "unwind"
             ELSE /\ zf' = c.zf
                  /\ trace' = c.trace
                  /\ err' = err
                  /\ pc' = "Save_while"
    /\ UNCHANGED << bookVars, opfUUID, tempVars, obfVars, dest, iterVars, dfileVars >>

\* Save_Return without the final zipClose
Save_Return_NoZipClose ==
    /\ pc = "Save_while"
    /\ remaining = { }
    /\ trace' = Call(Now, "return", << >>).trace
    /\ pc' = "return"
    /\ UNCHANGED << bookVars, opfUUID, tempVars, obfVars, dest, zf, iterVars,
                    dfileVars, err >>

\* lines 144 and 191-192: no file is left; the archive is closed
Save_Return ==
    /\ pc = "Save_while"
    /\ remaining = { }
    /\ LET s == Call(zipClose(Now), "return", << >>)
       IN  /\ zf' = s.zf
           /\ trace' = s.trace
    /\ pc' = "return"
    /\ UNCHANGED << bookVars, opfUUID, tempVars, obfVars, dest, iterVars, dfileVars,
                    err >>

Next ==
    \/ WB_Prepare
    \/ WB_TempFolder
    \/ CreatePublication
    \/ OF_Begin
    \/ OF_Font
    \/ OF_Return
    \/ Save_zipOpen
    \/ Save_CheckNull
    \/ Save_MimeOpen
    \/ Save_MimeWrite
    \/ Save_MimeClose
    \/ Save_Next
    \/ Save_OpenEntry
    \/ Save_OpenSource
    \/ Save_Read
    \/ Save_Write
    \/ Save_CloseEntry
    \/ Save_Return
    \/ WB_Return
    \/ WB_Unwind

Spec == Init /\ [][Next]_vars

(***************************************************************************)
(* Vocabulary of the properties.                                           *)
(***************************************************************************)
Indices(op) == { i \in 1..Len(trace) : trace[i].op = op }

SetMin(S) == CHOOSE x \in S : \A y \in S : x <= y

\* WriteBook is over: it returned or an exception left it
Ended == pc = "done"
Succeeded == pc = "done" /\ err = NoError
Failed == pc = "done" /\ err # NoError

\* zipOpen returned a handle
ArchiveOpened == zf.handle \in { "open", "closed" }

\* the entries written for files of the source directory
FileEntries == { i \in 1..Len(zf.entries) : zf.entries[i].src # << >> }

\* the number of bytes of the chunks written to an entry
RECURSIVE ChunkBytes(_)
ChunkBytes(chunks) ==
    IF chunks = << >> THEN 0
    ELSE Head(chunks).len.lo + ChunkBytes(Tail(chunks))

(***************************************************************************)
(* C1: whenever the archive was opened, the first entry opened is the one  *)
(* named "mimetype", with method store and no extra field, and every entry *)
(* opened for a file of the source directory is opened after the mimetype  *)
(* entry was written and closed.                                           *)
(***************************************************************************)
C1_MimetypeFirst ==
    LET opens == Indices("zipOpenNewFileInZip")
        first == SetMin(opens)
    IN  /\ opens # { } =>
              /\ trace[first].name = MIMETYPE_NAME
              /\ opens # { first } =>
                    /\ trace[first + 1].op = "zipWriteInFileInZip"
                    /\ trace[first + 2].op = "zipCloseFileInZip"
                    /\ \A j \in opens \ { first } : j > first + 2
        /\ zf.entries # << >> =>
              /\ zf.entries[1].src = << >>
              /\ zf.entries[1].name = MIMETYPE_NAME
              /\ zf.entries[1].method = Z_NO_COMPRESSION
              /\ zf.entries[1].extra = 0
        /\ \A i \in FileEntries :
              /\ i > 1
              /\ zf.entries[1].closed
              /\ Len(zf.entries[1].chunks) = 1

\* an export that wrote entries for two files after the mimetype entry
C1_Witness ==
    /\ Succeeded
    /\ Cardinality(FileEntries) = 2

(***************************************************************************)
(* C2: after a successful export each file of the source directory has     *)
(* exactly one entry, named by the file's path relative to the source      *)
(* directory without a leading slash, so that the entry names are the      *)
(* root-relative paths and no two files share a name.                      *)
(***************************************************************************)
C2_EntryNamesAreRelativePaths ==
    Succeeded =>
        /\ { zf.entries[i].src : i \in FileEntries } = staged
        /\ Cardinality(FileEntries) = Cardinality(staged)
        /\ \A i \in FileEntries :
              zf.entries[i].name = RootRelative(zf.entries[i].src, fullfolderpath)
        /\ \A i, j \in FileEntries :
              zf.entries[i].name = zf.entries[j].name => i = j

(***************************************************************************)
(* C3: the archive of a successful export holds exactly one entry named    *)
(* "mimetype", and it is the first entry.                                  *)
(***************************************************************************)
C3_SingleMimetypeEntry ==
    Succeeded =>
        /\ zf.entries[1].name = MIMETYPE_NAME
        /\ Cardinality({ i \in 1..Len(zf.entries) :
                            zf.entries[i].name = MIMETYPE_NAME }) = 1

(***************************************************************************)
(* C4: once zipOpen returned a handle, zipClose is called exactly once     *)
(* before SaveFolderAsEpubToLocation returns or throws; when zipOpen       *)
(* returned NULL, zipClose is never called.                                *)
(***************************************************************************)
C4_ZipCloseExactlyOnce ==
    LET closes == Indices("zipClose")
        exits  == Indices("throw") \cup Indices("return")
    IN  /\ ~ArchiveOpened => closes = { }
        /\ Cardinality(closes) <= 1
        /\ (closes # { }) <=> (zf.handle = "closed")
        /\ ArchiveOpened =>
              \A x \in exits : \E c \in closes : c < x

\* an export that failed on the second file's entry, after the archive was
\* opened
C4_Witness ==
    /\ Failed
    /\ ArchiveOpened
    /\ Len(zf.entries) >= 2
    /\ Cardinality(Indices("zipClose")) = 1

(***************************************************************************)
(* C5: when QFile::read fails, nothing of that read is passed to           *)
(* zipWriteInFileInZip; the entry and the archive are closed and the       *)
(* export fails with CannotStoreFile for the file's relative path.         *)
(***************************************************************************)
C5_FailedReadAborts ==
    read = ToUInt32(-1) =>
        /\ pc \notin { "Save_write", "crashed" }
        /\ pc \in { "unwind", "done" } =>
              /\ err = Error("CannotStoreFile", relpath)
              /\ zf.handle = "closed"
              /\ ~zf.inEntry

(***************************************************************************)
(* C6: when a source file cannot be opened, the entry just opened is       *)
(* closed, then the archive, and the export fails with CannotOpenFile      *)
(* whose path is the file's path relative to the source directory, the     *)
(* name of its entry.                                                      *)
(***************************************************************************)
\* the exception came from dfile.open failing
SourceOpenFailed ==
    /\ err.kind = "CannotOpenFile"
    /\ Len(trace) >= 4
    /\ trace[Len(trace) - 3].op = "QFile::open"

C6_OpenFailureNamesRelativePath ==
    SourceOpenFailed =>
        /\ trace[Len(trace) - 2].op = "zipCloseFileInZip"
        /\ trace[Len(trace) - 1].op = "zipClose"
        /\ err.path = RootRelative(itFile, fullfolderpath)
        /\ err.path = zf.entries[Len(zf.entries)].name

(***************************************************************************)
(* C7: WriteBook creates one temporary directory, and the directory is     *)
(* gone when WriteBook has ended, by return or by an exception of          *)
(* CreatePublication, ObfuscateFonts or SaveFolderAsEpubToLocation; an     *)
(* exception raised before the directory is created leaves none behind.    *)
(***************************************************************************)
C7_TempFolderRemoved ==
    /\ tempMade <= 1
    /\ tempExists => tempMade = 1
    /\ tempMade = 0 => pc \in { "WriteBook", "TempFolder", "done" }
    /\ Ended => ~tempExists

\* an export that made its directory and failed inside the archive writer
C7_Witness ==
    /\ Failed
    /\ tempMade = 1
    /\ ArchiveOpened
    /\ ~tempExists

(***************************************************************************)
(* C8: after WriteBook has ended, either it succeeded and a complete       *)
(* archive is at the destination, or it failed and the destination is      *)
(* absent or holds what it held before the call.                           *)
(***************************************************************************)
\* the mimetype entry and one fully written, closed entry per staged file
CompleteArchive ==
    /\ dest = "archive"
    /\ zf.handle = "closed"
    /\ ~zf.inEntry
    /\ Len(zf.entries) = 1 + Cardinality(staged)
    /\ zf.entries[1].src = << >>
    /\ zf.entries[1].closed
    /\ Len(zf.entries[1].chunks) = 1
    /\ { zf.entries[i].src : i \in FileEntries } = staged
    /\ \A i \in FileEntries :
          /\ zf.entries[i].closed
          /\ zf.entries[i].closeOk
          /\ \A k \in 1..Len(zf.entries[i].chunks) : zf.entries[i].chunks[k].ok
          /\ ChunkBytes(zf.entries[i].chunks)
                = FileSizeOf(RootRelative(zf.entries[i].src, fullfolderpath))

C8_ExportIsAtomic ==
    Ended =>
        \/ err = NoError /\ CompleteArchive
        \/ err # NoError /\ dest \in { "absent", "prior" }

(***************************************************************************)
(* C8, amended: a successful WriteBook leaves a complete archive at the    *)
(* destination; a WriteBook that failed before zipOpen returned a handle   *)
(* leaves the destination as it was; a WriteBook that failed after that    *)
(* leaves at the destination a closed archive, in place of what the path   *)
(* held, with the entries opened before the failure.                       *)
(***************************************************************************)
C8_FailureLeavesClosedArchive ==
    Ended =>
        IF err = NoError THEN CompleteArchive
        ELSE IF ArchiveOpened
        THEN /\ dest = "archive"
             /\ zf.handle = "closed"
             /\ ~zf.inEntry
             /\ Len(zf.entries) <= 1 + Cardinality(staged)
             /\ \A i \in 1..Len(zf.entries) : zf.entries[i].closed
             /\ { zf.entries[i].src : i \in FileEntries } \subseteq staged
        ELSE /\ dest \in { "absent", "prior" }
             /\ zf.entries = << >>

\* a failed export that left an archive without the entries of all files
C8_Witness ==
    /\ Failed
    /\ dest = "archive"
    /\ Len(zf.entries) >= 2
    /\ Len(zf.entries) < 1 + Cardinality(staged)

(***************************************************************************)
(* C9: when zipOpen returns NULL, the export fails with CannotOpenFile     *)
(* carrying the destination path; no archive file is created, no entry is  *)
(* opened or written and no source file is read.                           *)
(***************************************************************************)
C9_NullArchiveFails ==
    zf.handle = "NULL" =>
        /\ pc \in { "Save_null", "unwind", "done" }
        /\ pc # "Save_null" => err = Error("CannotOpenFile", m_FullFilePath)
        /\ dest \in { "absent", "prior" }
        /\ zf.entries = << >>
        /\ Indices("zipOpenNewFileInZip") = { }
        /\ Indices("zipWriteInFileInZip") = { }
        /\ Indices("QFile::open") = { }

\* an export whose zipOpen returned NULL, after it ended
C9_Witness ==
    /\ zf.handle = "NULL"
    /\ Failed
    /\ staged # { }

(***************************************************************************)
(* C10: ObfuscateFonts calls ObfuscateFile for no font whose algorithm is  *)
(* empty and at most once, in order, for the others; the key is the book's *)
(* UUID identifier for the Adobe algorithm and the publication identifier  *)
(* otherwise, the path is the folder path joined with the font's           *)
(* root-relative path; and when ObfuscateFonts has returned, every font    *)
(* with a non-empty algorithm has had its call.                            *)
(***************************************************************************)
C10_ObfuscateEachTaggedFontOnce ==
    /\ \A k \in 1..Len(obfCalls) :
          LET c == obfCalls[k]
          IN  /\ c.font \in 1..Len(fonts)
              /\ fonts[c.font] # ""
              /\ c.algorithm = fonts[c.font]
              /\ c.algorithm = ADOBE_FONT_ALGO_ID => c.key = opfUUID
              /\ c.algorithm # ADOBE_FONT_ALGO_ID => c.key = PublicationIdentifier
              /\ c.path = fullfolderpath \o << "/" >> \o FontRel(c.font)
    /\ \A k, l \in 1..Len(obfCalls) :
          k < l => obfCalls[k].font < obfCalls[l].font
    /\ fontIdx > Len(fonts) =>
          { obfCalls[k].font : k \in 1..Len(obfCalls) }
              = { i \in 1..Len(fonts) : fonts[i] # "" }

\* ObfuscateFonts returned after it skipped a font and obfuscated another
\* with the Adobe algorithm
C10_Witness ==
    /\ fontIdx > Len(fonts)
    /\ \E i, j \in 1..Len(fonts) :
          /\ fonts[i] = ""
          /\ fonts[j] = ADOBE_FONT_ALGO_ID
    /\ Len(obfCalls) = 1

(***************************************************************************)
(* C11: META-INF/encryption.xml is in the staged tree only when the book   *)
(* has an obfuscated font, and in that case it is there whenever           *)
(* SaveFolderAsEpubToLocation starts: a manifest that could not be created *)
(* or copied makes the export fail before packaging.                       *)
(***************************************************************************)
EncryptionXmlPath ==
    fullfolderpath \o METAINF_FOLDER_SUFFIX \o << "/" >> \o ENCRYPTION_XML_FILE_NAME

C11_ManifestPresentWhenPackaging ==
    /\ EncryptionXmlPath \in staged => HasObfuscatedFonts
    /\ (pc = "SaveFolderAsEpubToLocation" /\ HasObfuscatedFonts)
          => EncryptionXmlPath \in staged

(***************************************************************************)
(* C12: every entry of a file of the source directory is opened with       *)
(* method deflate and with the zip64 flag set, whatever the file's size.   *)
(***************************************************************************)
C12_FileEntriesDeflatedZip64 ==
    \A i \in FileEntries :
        /\ zf.entries[i].method = Z_DEFLATED
        /\ zf.entries[i].zip64 = 1

(***************************************************************************)
(* C13: when the close of an entry that was streamed fails, for the        *)
(* mimetype entry as for a file's entry, no further entry is opened, the   *)
(* archive is closed and the export fails with CannotStoreFile for that    *)
(* entry's path.                                                           *)
(***************************************************************************)
\* all the bytes meant for the entry were written to it
Streamed(e) ==
    IF e.src = << >>
    THEN Len(e.chunks) = 1
    ELSE ChunkBytes(e.chunks) = FileSizeOf(RootRelative(e.src, fullfolderpath))

C13_FailedCloseAborts ==
    \A i \in 1..Len(zf.entries) :
        LET e == zf.entries[i]
        IN  (e.closed /\ ~e.closeOk /\ Streamed(e) /\ ~SourceOpenFailed) =>
                /\ i = Len(zf.entries)
                /\ zf.handle = "closed"
                /\ err = Error("CannotStoreFile", e.name)

(***************************************************************************)
(* C14: no font is obfuscated with an empty key; when the book has         *)
(* obfuscated fonts and its UUID identifier is absent as ObfuscateFonts    *)
(* runs, no font is obfuscated, the archive writer is not invoked and the  *)
(* export fails with a precondition violation.                             *)
(***************************************************************************)
C14_AbsentUUIDIsFatal ==
    /\ \A k \in 1..Len(obfCalls) : obfCalls[k].key # ""
    /\ (fontIdx >= 1 /\ uuid_id = "") =>
          /\ obfCalls = << >>
          /\ Indices("zipOpen") = { }
          /\ pc \in { "OF_foreach", "unwind", "done" }
          /\ Ended => err.kind = "PreconditionViolation"

(***************************************************************************)
(* C15: the content written to the mimetype entry is exactly the byte      *)
(* string application/epub+zip, 21 bytes long, with no trailing newline    *)
(* and no terminating NUL byte.                                            *)
(***************************************************************************)
C15_MimetypeContent ==
    \A i \in 1..Len(zf.entries) :
        LET e == zf.entries[i]
        IN  (e.src = << >> /\ e.chunks # << >>) =>
                /\ Len(e.chunks) = 1
                /\ e.chunks[1].bytes = EPUB_MIME_TYPE
                /\ e.chunks[1].len = ToUInt32(21)
                /\ Len(e.chunks[1].bytes) = 21

(***************************************************************************)
(* C16: packaging a source directory with no regular files never enters    *)
(* the body of the traversal loop, opens no source file and fails only on  *)
(* the mimetype entry; once that entry is written the export succeeds, and *)
(* the archive then holds the single entry mimetype and was closed once.   *)
(***************************************************************************)
LoopBody ==
    { "Save_entry", "Save_dfile", "Save_read", "Save_write", "Save_closeentry" }

C16_EmptyFolderGivesMimetypeOnly ==
    (ArchiveOpened /\ staged = { }) =>
        /\ pc \notin LoopBody
        /\ Indices("QFile::open") = { }
        /\ Len(zf.entries) <= 1
        /\ \A i \in 1..Len(zf.entries) : zf.entries[i].name = MIMETYPE_NAME
        /\ Cardinality(Indices("zipClose")) <= 1
        /\ err # NoError => err = Error("CannotStoreFile", MIMETYPE_NAME)
        /\ pc = "Save_while" => err = NoError /\ remaining = { }
        /\ (pc \in { "return", "done" } /\ err = NoError) =>
              /\ Len(zf.entries) = 1
              /\ zf.entries[1].closed
              /\ zf.handle = "closed"
              /\ Cardinality(Indices("zipClose")) = 1
              /\ dest = "archive"

C16_Witness ==
    /\ Succeeded
    /\ staged = { }
    /\ Len(zf.entries) = 1
    /\ zf.handle = "closed"

(***************************************************************************)
(* C17: the chunks written to a file's entry hold between 1 and BUFF_SIZE  *)
(* bytes each and follow one another from offset 0 without gap or overlap; *)
(* when the file was read to its end they cover exactly the file, an empty *)
(* file having no chunk; the bytes written never exceed the file's size,   *)
(* so the loop over one file ends.                                         *)
(***************************************************************************)
SourceSize(e) == FileSizeOf(RootRelative(e.src, fullfolderpath))

\* the file of entry i was read to its end
ReadToEnd(i) ==
    \/ i < Len(zf.entries)
    \/ pc = "Save_closeentry"
    \/ pc \in { "Save_while", "return", "done" } /\ err = NoError

C17_ChunksTileTheFile ==
    \A i \in FileEntries :
        LET e == zf.entries[i]
            last == i = Len(zf.entries)
        IN  /\ \A k \in 1..Len(e.chunks) :
                  /\ e.chunks[k].ok
                  /\ e.chunks[k].len.hi = 0
                  /\ e.chunks[k].len.lo \in 1..BUFF_SIZE
                  /\ e.chunks[k].off = ChunkBytes(SubSeq(e.chunks, 1, k - 1))
            /\ ChunkBytes(e.chunks) <= SourceSize(e)
            /\ ReadToEnd(i) =>
                  /\ ChunkBytes(e.chunks) = SourceSize(e)
                  /\ SourceSize(e) = 0 <=> e.chunks = << >>
            /\ (last /\ pc = "Save_read") =>
                  /\ fsize = SourceSize(e)
                  /\ fpos = ChunkBytes(e.chunks)
            /\ (last /\ pc = "Save_write" /\ ~UExceedsBuff(read)) =>
                  /\ fpos = ChunkBytes(e.chunks) + read.lo
                  /\ fpos <= fsize

C17_Witness ==
    /\ Succeeded
    /\ \E i, j \in FileEntries :
         /\ zf.entries[i].chunks = << >>
         /\ Len(zf.entries[j].chunks) = MaxBlocks + 1
         /\ zf.entries[j].chunks[MaxBlocks + 1].len.lo = 1

(***************************************************************************)
(* C18: WriteBook stages, then obfuscates (only when the book has          *)
(* obfuscated fonts), then packages, entering each step at most once; an   *)
(* error raised by a step is the last thing that happens: no later font is *)
(* obfuscated, SaveFolderAsEpubToLocation is not invoked and the           *)
(* destination is not opened.                                              *)
(***************************************************************************)
StepRank(p) ==
    CASE p = "WriteBook" -> 0
      [] p = "TempFolder" -> 1
      [] p = "CreatePublication" -> 2
      [] p = "ObfuscateFonts" -> 3
      [] p = "OF_foreach" -> 4
      [] p = "SaveFolderAsEpubToLocation" -> 5
      [] p \in { "return", "unwind" } -> 7
      [] p \in { "done", "crashed" } -> 8
      [] OTHER -> 6

StepEntries == { "CreatePublication", "ObfuscateFonts", "SaveFolderAsEpubToLocation" }

C18_StepOrder ==
    /\ StepRank(pc') >= StepRank(pc)
    /\ pc \in StepEntries => StepRank(pc') > StepRank(pc)
    /\ pc' = "ObfuscateFonts" => pc = "CreatePublication" /\ HasObfuscatedFonts
    /\ pc' = "SaveFolderAsEpubToLocation" =>
          /\ err' = NoError
          /\ \/ pc = "CreatePublication" /\ ~HasObfuscatedFonts
             \/ pc = "OF_foreach" /\ fontIdx > Len(fonts)
    /\ err # NoError => UNCHANGED << obfCalls, fontIdx, staged, dest, zf, trace, err >>

C18_StepState ==
    /\ tempMade <= 1
    /\ Cardinality(Indices("zipOpen")) <= 1
    /\ \A i \in Indices("throw") : i = Len(trace) /\ err # NoError
    /\ obfCalls # << >> => HasObfuscatedFonts
    /\ \A i \in Indices("ObfuscateFile"), j \in Indices("zipOpen") : i < j
    /\ Indices("zipOpen") = { } => dest \in { "absent", "prior" } /\ zf.handle = "unset"
    /\ Indices("zipOpen") # { } =>
          /\ tempMade = 1
          /\ CopyFiles(fullfolderpath) \subseteq staged
          /\ HasObfuscatedFonts => fontIdx > Len(fonts)
          /\ ~HasObfuscatedFonts => fontIdx = 0 /\ obfCalls = << >>

C18_FixedOrderFailureAborts == [](C18_StepState) /\ [][C18_StepOrder]_vars

\* the obfuscation of the second font failed after the first was obfuscated
C18_Witness ==
    /\ Failed
    /\ Len(obfCalls) = 2
    /\ err.kind = "CannotOpenFile"
    /\ Indices("zipOpen") = { }
    /\ dest \in { "absent", "prior" }

(***************************************************************************)
(* C19: at most one entry of the archive is open at a time; no write and   *)
(* no entry close is made with no entry open, so an entry is closed at     *)
(* most once and never after its open failed; no entry is opened and the   *)
(* archive is not closed while an entry is open.                           *)
(***************************************************************************)
OpenEntries == { i \in 1..Len(zf.entries) : ~zf.entries[i].closed }

C19_EntryProtocol ==
    /\ ~zf.misused
    /\ OpenEntries \subseteq { Len(zf.entries) }
    /\ zf.inEntry <=> OpenEntries # { }
    /\ Cardinality(Indices("zipCloseFileInZip")) = Len(zf.entries) - Cardinality(OpenEntries)
    /\ Cardinality(Indices("zipWriteInFileInZip")) > 0 => zf.entries # << >>
    /\ zf.handle \in { "unset", "NULL", "closed" } => ~zf.inEntry

\* an entry failed to open after another was written and closed
C19_Witness ==
    /\ Failed
    /\ Len(zf.entries) = 2
    /\ Cardinality(Indices("zipOpenNewFileInZip")) = 3
    /\ Cardinality(Indices("zipCloseFileInZip")) = 2
    /\ zf.handle = "closed"

====
